---- MODULE Spec2Model ----
(***************************************************************************)
(* lfmq: a single-producer/single-consumer ring buffer (SpscQueue,         *)
(* include/lock_free_queue.hpp) and the message envelope it carries        *)
(* (Message, include/message.hpp and src/message.cpp).                     *)
(*                                                                         *)
(* The queue is modelled at the grain of its shared-memory accesses: one   *)
(* step per atomic load or store of an index (both are seq_cst, the        *)
(* default of std::atomic::load/store) and the plain, non-atomic write of  *)
(* a slot as two steps, so that a slot read overlapping it is visible.     *)
(***************************************************************************)
EXTENDS Integers, Sequences, FiniteSets, TLC

(* ---- bounds of the model ---------------------------------------------- *)

\* largest queue capacity (template parameter _size) explored
MaxSize == 4
\* number of elements the producer thread has to send
MaxPush == 4
\* number of completed push/pop calls recorded before the threads stop
MaxCalls == 10

\* number of completed push/pop calls of the thread pair that sends an envelope
MaxEnvCalls == 3

(* ---- program constants ------------------------------------------------ *)

\* requires (_size > 2): the smallest capacity the template accepts
MinSize == 3

\* value of a default-constructed slot (_T elements[_size], _T = int)
DefaultT == 0
\* what a reader sees in a slot whose plain write is still in progress
Torn == -1

Sizes == MinSize..MaxSize

VARIABLES
    capacity,               \* _size
    elements,               \* _T elements[_size]
    read_index,             \* std::atomic<size_t> read_index
    write_index,            \* std::atomic<size_t> write_index
    src,                    \* the values the producer thread sends, in order
    ppc,                    \* producer thread: position inside _push
    element,                \* _push: the argument
    push_curr_write_index,  \* _push: curr_write_index
    next_write_index,       \* _push: next_write_index
    cpc,                    \* consumer thread: position inside pop
    has_out,                \* pop: element != nullptr
    out,                    \* pop: *element, the caller's object
    curr_read_index,        \* pop: curr_read_index
    pop_curr_write_index,   \* pop: curr_write_index
    log,                    \* the completed calls, in order of return
    published,              \* per slot, the value of the last push that published it
    lhs,                    \* a Message (swap's first argument)
    rhs,                    \* a Message (swap's second argument)
    msg_op,                 \* the last Message operation and what it returned
    nonempty_seen,          \* consumer thread: is_empty() returned false, no pop since
    ie_val,                 \* is_empty: the index loaded first
    front_ref,              \* front: the index of the slot the reference returned names
    front_val,              \* <<v>>: the value last read through front(); <<>>: none
    retries                 \* history: the positions in src whose push returned false

queue == <<capacity, elements, read_index, write_index>>
producer == <<ppc, element, push_curr_write_index, next_write_index>>
consumer == <<cpc, has_out, out, curr_read_index, pop_curr_write_index>>
msgs == <<lhs, rhs, msg_op>>
peek == <<nonempty_seen, ie_val, front_ref, front_val>>
vars == <<queue, src, producer, consumer, log, published, msgs, peek, retries>>

\* the ascending input 1, 2, 3, ...: every element distinct
Ascending == [i \in 1..MaxPush |-> i]

\* one value over and over, the one the slots already hold
Repeated == [i \in 1..MaxPush |-> DefaultT]

Inputs == {Ascending, Repeated}

(* ---- history ---------------------------------------------------------- *)

\* a completed push(v) and what it returned
PushRec(v, r) == [op |-> "push", val |-> v, ret |-> r, copied |-> FALSE]
\* a completed pop: the value of the caller's object at the return, what the
\* call returned, and whether it copied an element into the object
PopRec(v, r, c) == [op |-> "pop", val |-> v, ret |-> r, copied |-> c]

\* the calls of log that are op calls and returned true
Filter(s, op) == SelectSeq(s, LAMBDA r : r.op = op /\ r.ret)

\* the successful pushes and the successful pops, in order
Pushed == Filter(log, "push")
Popped == Filter(log, "pop")

(* ---- Message ---------------------------------------------------------- *)

\* static constexpr size_t MAX_MESSAGE_SIZE = 512;
MAX_MESSAGE_SIZE == 512

\* enum class MessageType
MessageType ==
    {"UNKNOWN", "RESUME", "PAUSE", "STOP", "VOLUME", "RESIZE", "EFFECT_ADDED",
     "EFFECT_REMOVED", "EFFECT_ENABLED", "EFFECT_DISABLED", "PLAY_AT"}

\* the tags the callers of the model pass in
TagInputs == {"VOLUME", "PAUSE"}

\* an object of type _T as the template sees it: its sizeof, its bytes (the
\* object representation), whether is_pointer_v<_T> holds (a pointer passed as
\* an rvalue; for an lvalue _T is a reference type) and whether it is null
Object(n, b, isptr, null) ==
    [size |-> n, bytes |-> [i \in 0..(n - 1) |-> b], is_pointer |-> isptr, is_null |-> null]

\* the payloads the callers of the model pass in: a one-byte value, a value
\* filling the whole buffer, and pointers (8 bytes; a null one is all zero)
\* passed as rvalues and as lvalues
DataInputs ==
    {Object(1, 1, FALSE, FALSE), Object(MAX_MESSAGE_SIZE, 2, FALSE, FALSE)}
    \cup {Object(8, 1, TRUE, FALSE)}
    \cup {Object(8, 0, p, TRUE) : p \in BOOLEAN}

\* what the byte-level set_payload is given: the same one-byte and full
\* buffers, one byte more than the buffer holds, and a null data pointer
ByteInputs ==
    {Object(1, 1, FALSE, nl) : nl \in BOOLEAN}
    \cup {Object(n, 2, FALSE, nl) :
              n \in {MAX_MESSAGE_SIZE, MAX_MESSAGE_SIZE + 1}, nl \in BOOLEAN}

\* the argument recorded for an operation that takes no payload
NoObject == Object(0, 0, FALSE, FALSE)

\* a Message variable whose object has not been constructed yet
NoMessage == [metadata |-> "UNKNOWN", payload |-> <<>>, payload_size |-> -1]

\* constexpr Message(): metadata(), payload{ 0 }, payload_size(0)
Message0 ==
    [metadata |-> "UNKNOWN",
     payload |-> [i \in 0..(MAX_MESSAGE_SIZE - 1) |-> 0],
     payload_size |-> 0]

\* mutant of set_payload_bytes: the bytes are copied, payload_size is not set
set_payload_bytes_nosize(m, data_null, bytes, size) ==
    IF data_null \/ size > MAX_MESSAGE_SIZE
    THEN [msg |-> m, ret |-> FALSE]
    ELSE [msg |-> [m EXCEPT
                     !.payload = [i \in 0..(MAX_MESSAGE_SIZE - 1) |->
                                     IF i < size THEN bytes[i] ELSE m.payload[i]]],
          ret |-> TRUE]

\* mutant of set_payload_bytes: the size is not compared with MAX_MESSAGE_SIZE
set_payload_bytes_nocheck(m, data_null, bytes, size) ==
    IF data_null
    THEN [msg |-> m, ret |-> FALSE]
    ELSE [msg |-> [m EXCEPT
                     !.payload = [i \in 0..(MAX_MESSAGE_SIZE - 1) |->
                                     IF i < size THEN bytes[i] ELSE m.payload[i]],
                     !.payload_size = size],
          ret |-> TRUE]

\* bool Message::set_payload(const void* const data, const size_t size):
\* the message afterwards and the value returned
set_payload_bytes(m, data_null, bytes, size) ==
    IF data_null \/ size > MAX_MESSAGE_SIZE
    THEN [msg |-> m, ret |-> FALSE]
    ELSE [msg |-> [m EXCEPT
                     !.payload = [i \in 0..(MAX_MESSAGE_SIZE - 1) |->
                                     IF i < size THEN bytes[i] ELSE m.payload[i]],
                     !.payload_size = size],
          ret |-> TRUE]

\* template const _T& Message::get_payload<_T>() with sizeof(_T) = n: the
\* first n bytes of the buffer, read as the object representation of a _T
get_payload(m, n) == [i \in 0..(n - 1) |-> m.payload[i]]

\* Message::get_metadata().get_type()
get_metadata(m) == m.metadata

\* Message::get_payload_size()
get_payload_size(m) == m.payload_size

\* template bool Message::set_payload(_T&& data); is_ptr is is_pointer_v<_T>
set_payload(m, d, is_ptr) ==
    IF is_ptr /\ d.is_null
    THEN [msg |-> m, ret |-> FALSE]
    ELSE set_payload_bytes(m, FALSE, d.bytes, d.size)

\* Message(const MessageMetadata& metadata, _T&& data): inside the constructor
\* data is a named variable, an lvalue, so the set_payload it calls is
\* instantiated with a reference type, for which is_pointer_v is false
Message2(metadata, d) ==
    LET r == set_payload([Message0 EXCEPT !.metadata = metadata], d, FALSE)
    IN  [msg |-> r.msg, thrown |-> d.is_pointer /\ ~r.ret]

\* friend void swap(Message& lhs, Message& rhs): the two messages afterwards.
\* swap(lhs.metadata, lhs.metadata) exchanges lhs.metadata with itself
swap(l, r) ==
    [lhs |-> [metadata |-> l.metadata, payload |-> r.payload,
              payload_size |-> r.payload_size],
     rhs |-> [metadata |-> r.metadata, payload |-> l.payload,
              payload_size |-> l.payload_size]]

(* ---- SpscQueue -------------------------------------------------------- *)

Init ==
    /\ capacity \in Sizes
    /\ elements = [i \in 0..(capacity - 1) |-> DefaultT]
    /\ read_index = 0
    /\ write_index = 0
    /\ src \in Inputs
    /\ ppc = "idle"
    /\ element = DefaultT
    /\ push_curr_write_index = 0
    /\ next_write_index = 0
    /\ cpc = "idle"
    /\ has_out = FALSE
    /\ out = DefaultT
    /\ curr_read_index = 0
    /\ pop_curr_write_index = 0
    /\ log = <<>>
    /\ published = [i \in 0..(capacity - 1) |-> DefaultT]
    /\ lhs = NoMessage
    /\ rhs = NoMessage
    /\ msg_op = [op |-> "none", ret |-> TRUE, which |-> "none", arg |-> NoObject]
    /\ nonempty_seen = FALSE
    /\ ie_val = 0
    /\ front_ref = 0
    /\ front_val = <<>>
    /\ retries = {}

\* is_empty(): read_index.load() == write_index.load()
is_empty == read_index = write_index

\* mutant of Wrap: the index is incremented and never reset to 0
Wrap_nowrap(i) == i + 1

\* the wrapping increment both operations apply to an index
Wrap(i) == IF i + 1 = capacity THEN 0 ELSE i + 1

\* the producer thread calls push(src[k]) for the first k not yet accepted
push_call ==
    /\ ppc = "idle"
    /\ Len(log) < MaxCalls
    /\ Len(Pushed) < Len(src)
    /\ element' = src[Len(Pushed) + 1]
    /\ ppc' = "load_write"
    /\ UNCHANGED <<msgs, peek, retries, published, queue, src, push_curr_write_index, next_write_index, consumer, log>>

\* mutant of push_load_write: next_write_index is not reset to 0 at the capacity
push_load_write_nowrap ==
    /\ ppc = "load_write"
    /\ push_curr_write_index' = write_index
    /\ next_write_index' = write_index + 1
    /\ ppc' = "check_full"
    /\ UNCHANGED <<msgs, peek, retries, published, queue, src, element, consumer, log>>

\* curr_write_index = write_index.load(); next_write_index = curr + 1, wrapped
push_load_write ==
    /\ ppc = "load_write"
    /\ push_curr_write_index' = write_index
    /\ next_write_index' = Wrap(write_index)
    /\ ppc' = "check_full"
    /\ UNCHANGED <<msgs, peek, retries, published, queue, src, element, consumer, log>>

\* mutant of push_check_full: the read index is compared with the current
\* write index, not with the next one
push_check_full_wrong ==
    /\ ppc = "check_full"
    /\ IF read_index = push_curr_write_index
       THEN /\ ppc' = "idle"
            /\ log' = Append(log, PushRec(element, FALSE))
       ELSE /\ ppc' = "write_slot"
            /\ UNCHANGED log
    /\ UNCHANGED <<msgs, peek, retries, published, queue, src, element, push_curr_write_index,
                   next_write_index, consumer>>

\* mutant of push_check_full: the fullness test is left out
push_check_full_skip ==
    /\ ppc = "check_full"
    /\ ppc' = "write_slot"
    /\ UNCHANGED <<msgs, peek, retries, published, queue, src, element, push_curr_write_index,
                   next_write_index, consumer, log>>

\* mutant of push_check_full: the element is stored before the fullness test
push_check_full_overwrite ==
    /\ ppc = "check_full"
    /\ elements' = [elements EXCEPT ![push_curr_write_index] = element]
    /\ IF read_index = next_write_index
       THEN /\ ppc' = "idle"
            /\ log' = Append(log, PushRec(element, FALSE))
       ELSE /\ ppc' = "write_slot"
            /\ UNCHANGED log
    /\ UNCHANGED <<msgs, peek, retries, published, capacity, read_index, write_index, src, element,
                   push_curr_write_index, next_write_index, consumer>>

\* mutant of push_check_full: a full queue makes push start over and wait
push_check_full_spin ==
    /\ ppc = "check_full"
    /\ ppc' = IF read_index = next_write_index THEN "load_write" ELSE "write_slot"
    /\ UNCHANGED <<msgs, peek, retries, published, queue, src, element, push_curr_write_index,
                   next_write_index, consumer, log>>

\* if (read_index.load() == next_write_index) return false;
push_check_full ==
    /\ ppc = "check_full"
    /\ IF read_index = next_write_index
       THEN /\ ppc' = "idle"
            /\ log' = Append(log, PushRec(element, FALSE))
       ELSE /\ ppc' = "write_slot"
            /\ UNCHANGED log
    /\ UNCHANGED <<msgs, peek, retries, published, queue, src, element, push_curr_write_index, next_write_index, consumer>>

\* mutant of push_write_begin: the write index is stored before the element
push_write_begin_publish ==
    /\ ppc = "write_slot"
    /\ write_index' = next_write_index
    /\ elements' = [elements EXCEPT ![push_curr_write_index] = Torn]
    /\ ppc' = "writing"
    /\ UNCHANGED <<msgs, peek, retries, published, capacity, read_index, src, element,
                   push_curr_write_index, next_write_index, consumer, log>>

\* elements[curr_write_index] = element: the plain write begins
push_write_begin ==
    /\ ppc = "write_slot"
    /\ elements' = [elements EXCEPT ![push_curr_write_index] = Torn]
    /\ ppc' = "writing"
    /\ UNCHANGED <<msgs, peek, retries, published, capacity, read_index, write_index, src, element,
                   push_curr_write_index, next_write_index, consumer, log>>

\* elements[curr_write_index] = element: the plain write completes
push_write_end ==
    /\ ppc = "writing"
    /\ elements' = [elements EXCEPT ![push_curr_write_index] = element]
    /\ ppc' = "store_write"
    /\ UNCHANGED <<msgs, peek, retries, published, capacity, read_index, write_index, src, element,
                   push_curr_write_index, next_write_index, consumer, log>>

\* write_index.store(next_write_index); return true;
push_store_write ==
    /\ ppc = "store_write"
    /\ write_index' = next_write_index
    /\ ppc' = "idle"
    /\ log' = Append(log, PushRec(element, TRUE))
    /\ published' = [published EXCEPT ![push_curr_write_index] = element]
    /\ UNCHANGED <<msgs, peek, retries, capacity, elements, read_index, src, element,
                   push_curr_write_index, next_write_index, consumer>>

\* the consumer thread calls pop(&out) or pop(nullptr)
pop_call ==
    /\ cpc = "idle"
    /\ Len(log) < MaxCalls
    /\ has_out' \in BOOLEAN
    /\ cpc' = "load_read"
    /\ UNCHANGED <<msgs, peek, retries, published, queue, src, producer, out, curr_read_index, pop_curr_write_index, log>>

\* mutant of pop_load_read: the slot is copied out before the write index is loaded
pop_load_read_copies ==
    /\ cpc = "load_read"
    /\ curr_read_index' = read_index
    /\ out' = IF has_out THEN elements[read_index] ELSE out
    /\ cpc' = "check_empty"
    /\ UNCHANGED <<msgs, peek, retries, published, queue, src, producer, has_out, pop_curr_write_index, log>>

\* curr_read_index = read_index.load();
pop_load_read ==
    /\ cpc = "load_read"
    /\ curr_read_index' = read_index
    /\ cpc' = "check_empty"
    /\ UNCHANGED <<msgs, peek, retries, published, queue, src, producer, has_out, out, pop_curr_write_index, log>>

\* mutant of pop_check_empty: the slot is copied out before the emptiness test
pop_check_empty_copies ==
    /\ cpc = "check_empty"
    /\ pop_curr_write_index' = write_index
    /\ out' = IF has_out THEN elements[curr_read_index] ELSE out
    /\ IF curr_read_index = write_index
       THEN /\ cpc' = "idle"
            /\ log' = Append(log, PopRec(out', FALSE, FALSE))
       ELSE /\ cpc' = "read_slot"
            /\ UNCHANGED log
    /\ UNCHANGED <<msgs, peek, retries, published, queue, src, producer, has_out, curr_read_index>>

\* curr_write_index = write_index.load(); if (curr_read == curr_write) return false;
pop_check_empty ==
    /\ cpc = "check_empty"
    /\ pop_curr_write_index' = write_index
    /\ IF curr_read_index = write_index
       THEN /\ cpc' = "idle"
            /\ log' = Append(log, PopRec(out, FALSE, FALSE))
       ELSE /\ cpc' = "read_slot"
            /\ UNCHANGED log
    /\ UNCHANGED <<msgs, peek, retries, published, queue, src, producer, has_out, out, curr_read_index>>

\* mutant of pop_read_slot: the slot is read after the index is incremented
pop_read_slot_next ==
    /\ cpc = "read_slot"
    /\ out' = IF has_out THEN elements[Wrap(curr_read_index)] ELSE out
    /\ cpc' = "store_read"
    /\ UNCHANGED <<msgs, peek, retries, published, queue, src, producer, has_out, curr_read_index,
                   pop_curr_write_index, log>>

\* if (element != nullptr) *element = elements[curr_read_index];
pop_read_slot ==
    /\ cpc = "read_slot"
    /\ out' = IF has_out THEN elements[curr_read_index] ELSE out
    /\ cpc' = "store_read"
    /\ UNCHANGED <<msgs, peek, retries, published, queue, src, producer, has_out, curr_read_index, pop_curr_write_index, log>>

\* mutant of pop_store_read: the read index is not reset to 0 at the capacity
pop_store_read_nowrap ==
    /\ cpc = "store_read"
    /\ read_index' = curr_read_index + 1
    /\ curr_read_index' = curr_read_index + 1
    /\ cpc' = "idle"
    /\ log' = Append(log, PopRec(out, TRUE, has_out))
    /\ UNCHANGED <<msgs, peek, retries, published, capacity, elements, write_index, src, producer,
                   has_out, out, pop_curr_write_index>>

\* mutant of pop_store_read: the read index advances only when an element was
\* copied out
pop_store_read_only_out ==
    /\ cpc = "store_read"
    /\ read_index' = IF has_out THEN Wrap(curr_read_index) ELSE curr_read_index
    /\ curr_read_index' = IF has_out THEN Wrap(curr_read_index) ELSE curr_read_index
    /\ cpc' = "idle"
    /\ log' = Append(log, PopRec(out, TRUE, has_out))
    /\ UNCHANGED <<msgs, peek, retries, published, capacity, elements, write_index, src, producer,
                   has_out, out, pop_curr_write_index>>

\* mutant of pop_store_read: the popped slot is reset to a default element
pop_store_read_clears ==
    /\ cpc = "store_read"
    /\ elements' = [elements EXCEPT ![curr_read_index] = DefaultT]
    /\ read_index' = Wrap(curr_read_index)
    /\ curr_read_index' = Wrap(curr_read_index)
    /\ cpc' = "idle"
    /\ log' = Append(log, PopRec(out, TRUE, has_out))
    /\ UNCHANGED <<msgs, peek, retries, published, capacity, write_index, src, producer,
                   has_out, out, pop_curr_write_index>>

\* curr_read_index++, wrapped; read_index.store(curr_read_index); return true;
pop_store_read ==
    /\ cpc = "store_read"
    /\ read_index' = Wrap(curr_read_index)
    /\ curr_read_index' = Wrap(curr_read_index)
    /\ cpc' = "idle"
    /\ log' = Append(log, PopRec(out, TRUE, has_out))
    /\ UNCHANGED <<msgs, peek, retries, published, capacity, elements, write_index, src, producer, has_out, out,
                   pop_curr_write_index>>

Next ==
    \/ push_call
    \/ push_load_write
    \/ push_check_full
    \/ push_write_begin
    \/ push_write_end
    \/ push_store_write
    \/ pop_call
    \/ pop_load_read
    \/ pop_check_empty
    \/ pop_read_slot
    \/ pop_store_read

Spec == Init /\ [][Next]_vars

(* ---- both threads retrying: a push that returned false is called again --- *)

\* mutant of live_push_check_full: the full test compares the read index with
\* the current write index
live_push_check_full_wrong ==
    /\ ppc = "check_full"
    /\ IF read_index = push_curr_write_index
       THEN /\ ppc' = "idle"
            /\ retries' = retries \cup {Len(Pushed) + 1}
       ELSE /\ ppc' = "write_slot"
            /\ UNCHANGED retries
    /\ UNCHANGED <<msgs, peek, published, queue, src, element, push_curr_write_index,
                   next_write_index, consumer, log>>

\* push_check_full, a false return remembered by the position of the element
\* instead of a record in the history (the retries are unbounded)
live_push_check_full ==
    /\ ppc = "check_full"
    /\ IF read_index = next_write_index
       THEN /\ ppc' = "idle"
            /\ retries' = retries \cup {Len(Pushed) + 1}
       ELSE /\ ppc' = "write_slot"
            /\ UNCHANGED retries
    /\ UNCHANGED <<msgs, peek, published, queue, src, element, push_curr_write_index,
                   next_write_index, consumer, log>>

\* the consumer thread calls pop(&out)
live_pop_call ==
    /\ cpc = "idle"
    /\ Len(log) < MaxCalls
    /\ has_out' = TRUE
    /\ cpc' = "load_read"
    /\ UNCHANGED <<msgs, peek, retries, published, queue, src, producer, out,
                   curr_read_index, pop_curr_write_index, log>>

\* pop_check_empty, a false return leaving no record in the history
live_pop_check_empty ==
    /\ cpc = "check_empty"
    /\ pop_curr_write_index' = write_index
    /\ cpc' = IF curr_read_index = write_index THEN "idle" ELSE "read_slot"
    /\ UNCHANGED <<msgs, peek, retries, published, queue, src, producer, has_out, out,
                   curr_read_index, log>>

\* the producer thread: push called again after every return
LiveProducer ==
    \/ push_call
    \/ push_load_write
    \/ live_push_check_full
    \/ push_write_begin
    \/ push_write_end
    \/ push_store_write

\* the consumer thread: pop called again after every return
LiveConsumer ==
    \/ live_pop_call
    \/ pop_load_read
    \/ live_pop_check_empty
    \/ pop_read_slot
    \/ pop_store_read

LiveNext == LiveProducer \/ LiveConsumer

\* both threads scheduled fairly
SpecLive ==
    /\ Init
    /\ [][LiveNext]_vars
    /\ WF_vars(LiveProducer)
    /\ WF_vars(LiveConsumer)

(* ---- a consumer that looks before it pops: is_empty(), front(), pop() --- *)

\* the consumer thread calls is_empty()
front_is_empty_call ==
    /\ cpc = "idle"
    /\ cpc' = "is_empty"
    /\ nonempty_seen' = FALSE
    /\ front_val' = <<>>
    /\ UNCHANGED <<msgs, retries, queue, src, producer, has_out, out, curr_read_index,
                   pop_curr_write_index, log, published, ie_val, front_ref>>

\* read_index.load() == write_index.load(): the operand evaluated first (the
\* language leaves open which one that is)
front_is_empty_first ==
    /\ cpc = "is_empty"
    /\ \/ ie_val' = read_index /\ cpc' = "is_empty_read_loaded"
       \/ ie_val' = write_index /\ cpc' = "is_empty_write_loaded"
    /\ UNCHANGED <<msgs, retries, queue, src, producer, has_out, out, curr_read_index,
                   pop_curr_write_index, log, published, nonempty_seen, front_ref,
                   front_val>>

\* read_index.load() == write_index.load(): the other operand, and the result
front_is_empty_second ==
    /\ cpc \in {"is_empty_read_loaded", "is_empty_write_loaded"}
    /\ nonempty_seen' = IF cpc = "is_empty_read_loaded"
                        THEN ie_val # write_index
                        ELSE read_index # ie_val
    /\ cpc' = "idle"
    /\ UNCHANGED <<msgs, retries, queue, src, producer, has_out, out, curr_read_index,
                   pop_curr_write_index, log, published, ie_val, front_ref, front_val>>

\* front() naming the slot after the read index
front_call_next ==
    /\ cpc = "idle"
    /\ nonempty_seen
    /\ front_ref' = Wrap(read_index + 1)
    /\ cpc' = "front_deref"
    /\ UNCHANGED <<msgs, retries, queue, src, producer, has_out, out, curr_read_index,
                   pop_curr_write_index, log, published, nonempty_seen, ie_val,
                   front_val>>

\* the consumer thread, having seen the queue non-empty, calls front():
\* return this->elements[this->read_index.load()], a reference
front_call ==
    /\ cpc = "idle"
    /\ nonempty_seen
    /\ front_ref' = read_index
    /\ cpc' = "front_deref"
    /\ UNCHANGED <<msgs, retries, queue, src, producer, has_out, out, curr_read_index,
                   pop_curr_write_index, log, published, nonempty_seen, ie_val,
                   front_val>>

\* the caller reads the element through the reference front() returned
front_read ==
    /\ cpc = "front_deref"
    /\ front_val' = <<elements[front_ref]>>
    /\ cpc' = "idle"
    /\ UNCHANGED <<msgs, retries, queue, src, producer, has_out, out, curr_read_index,
                   pop_curr_write_index, log, published, nonempty_seen, ie_val,
                   front_ref>>

\* the consumer thread, having seen the queue non-empty, calls pop(&out)
front_pop_call ==
    /\ cpc = "idle"
    /\ nonempty_seen
    /\ Len(log) < MaxCalls
    /\ nonempty_seen' = FALSE
    /\ has_out' = TRUE
    /\ cpc' = "load_read"
    /\ UNCHANGED <<msgs, retries, queue, src, producer, out, curr_read_index,
                   pop_curr_write_index, log, published, ie_val, front_ref, front_val>>

FrontNext ==
    \/ push_call
    \/ push_load_write
    \/ push_check_full
    \/ push_write_begin
    \/ push_write_end
    \/ push_store_write
    \/ front_is_empty_call
    \/ front_is_empty_first
    \/ front_is_empty_second
    \/ front_call
    \/ front_read
    \/ front_pop_call
    \/ pop_load_read
    \/ pop_check_empty
    \/ pop_read_slot
    \/ pop_store_read

\* the producer pushing, the consumer looking before it pops
SpecFront == Init /\ [][FrontNext]_vars

(* ---- the Message operations as steps of one thread --------------------- *)

Get(which) == IF which = "lhs" THEN lhs ELSE rhs

\* which' = m, the other Message and the queue unchanged; the operation, the
\* payload it was given and what it returned are recorded
Put(which, m, op, ret, arg) ==
    /\ lhs' = IF which = "lhs" THEN m ELSE lhs
    /\ rhs' = IF which = "rhs" THEN m ELSE rhs
    /\ msg_op' = [op |-> op, ret |-> ret, which |-> which, arg |-> arg]
    /\ UNCHANGED <<queue, src, producer, consumer, log, published, peek, retries>>

\* Message m;
msg_default ==
    \E which \in {"lhs", "rhs"} :
        /\ Get(which) = NoMessage
        /\ Put(which, Message0, "default", TRUE, NoObject)

\* Message m(metadata, data); when the constructor throws there is no object
msg_construct ==
    \E which \in {"lhs", "rhs"}, t \in TagInputs, d \in DataInputs :
        LET r == Message2(t, d) IN
        /\ Get(which) = NoMessage
        /\ Put(which, IF r.thrown THEN NoMessage ELSE r.msg, "construct", ~r.thrown, d)

\* m.set_metadata(metadata)
msg_set_metadata ==
    \E which \in {"lhs", "rhs"}, t \in TagInputs :
        /\ Get(which) # NoMessage
        /\ Put(which, [Get(which) EXCEPT !.metadata = t], "set_metadata", TRUE, NoObject)

\* m.set_payload(data)
msg_set_payload ==
    \E which \in {"lhs", "rhs"}, d \in DataInputs :
        LET r == set_payload(Get(which), d, d.is_pointer) IN
        /\ Get(which) # NoMessage
        /\ Put(which, r.msg, "set_payload", r.ret, d)

\* m.set_payload(data, size), the private byte-level copy called directly
msg_set_payload_bytes ==
    \E which \in {"lhs", "rhs"}, d \in ByteInputs :
        LET r == set_payload_bytes(Get(which), d.is_null, d.bytes, d.size) IN
        /\ Get(which) # NoMessage
        /\ Put(which, r.msg, "set_payload_bytes", r.ret, d)

\* swap(lhs, rhs)
msg_swap ==
    /\ lhs # NoMessage
    /\ rhs # NoMessage
    /\ lhs' = swap(lhs, rhs).lhs
    /\ rhs' = swap(lhs, rhs).rhs
    /\ msg_op' = [op |-> "swap", ret |-> TRUE, which |-> "both", arg |-> NoObject]
    /\ UNCHANGED <<queue, src, producer, consumer, log, published, peek, retries>>

MsgNext ==
    \/ msg_default
    \/ msg_construct
    \/ msg_set_metadata
    \/ msg_set_payload
    \/ msg_set_payload_bytes
    \/ msg_swap

\* one queue, which stays as constructed, and no Message constructed yet
InitMsg == Init /\ capacity = MinSize /\ src = Ascending

\* the Message operations alone
SpecMsg == InitMsg /\ [][MsgNext]_vars

(* ---- an envelope sent through a SpscQueue<Message, _size> ------------- *)

\* a queue of Messages: the slots, the argument of push and the consumer's
\* object are default-constructed Messages
InitEnv ==
    /\ capacity = MinSize
    /\ elements = [i \in 0..(capacity - 1) |-> Message0]
    /\ read_index = 0
    /\ write_index = 0
    /\ src = <<>>
    /\ ppc = "idle"
    /\ element = Message0
    /\ push_curr_write_index = 0
    /\ next_write_index = 0
    /\ cpc = "idle"
    /\ has_out = FALSE
    /\ out = Message0
    /\ curr_read_index = 0
    /\ pop_curr_write_index = 0
    /\ log = <<>>
    /\ published = [i \in 0..(capacity - 1) |-> Message0]
    /\ lhs = NoMessage
    /\ rhs = NoMessage
    /\ msg_op = [op |-> "none", ret |-> TRUE, which |-> "none", arg |-> NoObject]
    /\ nonempty_seen = FALSE
    /\ ie_val = 0
    /\ front_ref = 0
    /\ front_val = <<>>
    /\ retries = {}

\* Message lhs(MessageMetadata(MessageType::VOLUME), data);
env_construct ==
    \E d \in DataInputs :
        LET r == Message2("VOLUME", d) IN
        /\ lhs = NoMessage
        /\ Put("lhs", IF r.thrown THEN NoMessage ELSE r.msg, "construct", ~r.thrown, d)

\* the producer thread calls push(lhs)
env_push_call ==
    /\ ppc = "idle"
    /\ lhs # NoMessage
    /\ Len(log) < MaxEnvCalls
    /\ element' = lhs
    /\ ppc' = "load_write"
    /\ UNCHANGED <<msgs, peek, retries, published, queue, src, push_curr_write_index, next_write_index,
                   consumer, log>>

\* the consumer thread calls pop(&out)
env_pop_call ==
    /\ cpc = "idle"
    /\ Len(log) < MaxEnvCalls
    /\ has_out' = TRUE
    /\ cpc' = "load_read"
    /\ UNCHANGED <<msgs, peek, retries, published, queue, src, producer, out, curr_read_index,
                   pop_curr_write_index, log>>

EnvNext ==
    \/ env_construct
    \/ env_push_call
    \/ push_load_write
    \/ push_check_full
    \/ push_write_begin
    \/ push_write_end
    \/ push_store_write
    \/ env_pop_call
    \/ pop_load_read
    \/ pop_check_empty
    \/ pop_read_slot
    \/ pop_store_read

\* one envelope constructed, pushed and popped by the two threads
SpecEnv == InitEnv /\ [][EnvNext]_vars

(* ==== properties ======================================================== *)

\* the elements the queue holds, oldest first, as the slots between the two
\* indices give them
Content ==
    [k \in 1..((write_index - read_index + capacity) % capacity) |->
        elements[(read_index + k - 1) % capacity]]

\* the elements pushed and not yet popped, oldest first, as the calls give them
Pending ==
    [k \in 1..(Len(Pushed) - Len(Popped)) |-> Pushed[Len(Popped) + k].val]

\* a step of the producer thread inside a call, and of the consumer thread
ProducerStep ==
    \/ push_load_write
    \/ push_check_full
    \/ push_write_begin
    \/ push_write_end
    \/ push_store_write

ConsumerStep ==
    \/ pop_load_read
    \/ pop_check_empty
    \/ pop_read_slot
    \/ pop_store_read

(* ---- C1 ---- *)
\* C1: FIFO under concurrency. In every interleaving of the producer's and
\* the consumer's steps, the i-th successful pop removes the i-th successfully
\* pushed element: there are never more successful pops than successful
\* pushes, and every value a pop copied out is the value of the push of the
\* same rank, so the popped values are a prefix of the pushed ones.
C1_Fifo ==
    /\ Len(Popped) <= Len(Pushed)
    /\ \A i \in 1..Len(Popped) :
          Popped[i].copied => Popped[i].val = Pushed[i].val

\* three distinct values popped in order while a fourth push is writing its
\* slot, on the smallest queue (the indices have wrapped)
C1_Witness ==
    /\ capacity = MinSize
    /\ src = Ascending
    /\ ppc = "writing"
    /\ Len(Popped) = 3
    /\ \A i \in 1..3 : Popped[i].copied /\ Popped[i].val = i

(* ---- C2 ---- *)
\* C2: slot visibility and no premature overwrite. From the moment a pop has
\* found the queue non-empty at read index i until it stores the advanced read
\* index, the producer is neither about to write slot i, nor writing it, nor
\* holding it written but unpublished; and the value the pop copied out of
\* slot i is the value of the push that published slot i.
C2_SlotVisibility ==
    /\ cpc \in {"read_slot", "store_read"} =>
          ~(/\ ppc \in {"write_slot", "writing", "store_write"}
            /\ push_curr_write_index = curr_read_index)
    /\ (cpc = "store_read" /\ has_out) => out = published[curr_read_index]

\* the consumer has copied slot 0 out for the second time (after a full
\* wraparound) while the producer is writing another slot
C2_Witness ==
    /\ capacity = MinSize
    /\ src = Ascending
    /\ cpc = "store_read"
    /\ has_out
    /\ curr_read_index = 0
    /\ out = 4
    /\ Len(Popped) = 3

(* ---- C3 ---- *)
\* no pop has been called so far
NoPopYet == cpc = "idle" /\ \A i \in 1..Len(log) : log[i].op = "push"

\* C3: capacity bound. On a queue of capacity N that started empty, as long as
\* no pop has been called, the i-th push call returns true exactly when
\* i <= N - 1: the first N - 1 succeed, the N-th (and any later one) fails,
\* whatever the values pushed.
C3_CapacityBound ==
    NoPopYet => \A i \in 1..Len(log) : log[i].ret = (i < capacity)

\* capacity 4, four pushes of one and the same value: three accepted, the
\* fourth refused
C3_Witness ==
    /\ capacity = 4
    /\ src = Repeated
    /\ NoPopYet
    /\ Len(log) = 4
    /\ log[3].ret
    /\ ~log[4].ret

(* ---- C4 ---- *)
\* C4: push on a full queue fails without destroying anything. The step of a
\* push that loads the read index while (write index + 1) mod N equals it
\* returns false and changes neither index nor any slot, and the N - 1
\* elements queued are still in the slots, in the order they were pushed.
C4_FullPush ==
    [][(/\ ppc = "check_full"
        /\ ppc' # ppc
        /\ (write_index + 1) % capacity = read_index)
       => (/\ ppc' = "idle"
           /\ log' = Append(log, PushRec(element, FALSE))
           /\ UNCHANGED <<elements, read_index, write_index>>
           /\ Len(Content') = capacity - 1
           /\ Content' = Pending')]_vars

\* a refused push followed by pops that return the two queued elements in
\* their original order
C4_Witness ==
    /\ capacity = MinSize
    /\ log = <<PushRec(1, TRUE), PushRec(2, TRUE), PushRec(3, FALSE),
               PopRec(1, TRUE, TRUE), PopRec(2, TRUE, TRUE)>>

(* ---- C5 ---- *)
\* C5: pop on an empty queue fails without destroying anything. No step of a
\* pop up to its emptiness test writes the caller's object, and the step that
\* loads the write index while the read index equals it returns false and
\* changes neither the caller's object, nor an index, nor a slot.
C5_EmptyPop ==
    [][/\ (cpc \in {"idle", "load_read", "check_empty"} /\ cpc' # cpc) => out' = out
       /\ (cpc = "check_empty" /\ cpc' # cpc /\ read_index = write_index)
          => (/\ cpc' = "idle"
              /\ log' = Append(log, PopRec(out, FALSE, FALSE))
              /\ UNCHANGED <<elements, read_index, write_index>>)]_vars

\* pop(&out) on the emptied queue returned false and out still holds the
\* value the pop before it returned
C5_Witness ==
    /\ has_out
    /\ cpc = "idle"
    /\ out = 1
    /\ log = <<PushRec(1, TRUE), PopRec(1, TRUE, TRUE), PopRec(1, FALSE, FALSE)>>

(* ---- C6 ---- *)
\* C6: emptiness tracks the push/pop count. (write index - read index) mod N
\* is the number of successful pushes minus the number of successful pops,
\* and is_empty() is true exactly when that difference is zero, also after
\* the indices have wrapped.
C6_Emptiness ==
    /\ (write_index - read_index + capacity) % capacity = Len(Pushed) - Len(Popped)
    /\ is_empty <=> (Len(Pushed) = Len(Popped))

\* four pushes and four pops on a queue of capacity 3: both indices have
\* wrapped around and the queue is empty again
C6_Witness ==
    /\ capacity = MinSize
    /\ Len(Pushed) = 4
    /\ Len(Popped) = 4
    /\ read_index = 1
    /\ is_empty

(* ---- C7 ---- *)
\* the calls of the wraparound scenario and what each returns
Script ==
    <<PushRec(1, TRUE), PushRec(2, TRUE), PushRec(3, TRUE), PushRec(4, FALSE),
      PopRec(1, TRUE, TRUE), PushRec(4, TRUE),
      PopRec(2, TRUE, TRUE), PopRec(3, TRUE, TRUE), PopRec(4, TRUE, TRUE),
      PopRec(4, FALSE, FALSE)>>

\* call a is the call b of the scenario: the same operation, a push of the
\* same value, a pop that was given an object
SameCall(a, b) ==
    /\ a.op = b.op
    /\ a.op = "push" => a.val = b.val
    /\ (a.op = "pop" /\ a.ret) => a.copied

\* call a returned what the scenario says
SameResult(a, b) ==
    /\ a.ret = b.ret
    /\ (a.op = "pop" /\ b.ret) => a.val = b.val

ScriptLen == IF Len(log) < Len(Script) THEN Len(log) ELSE Len(Script)

\* C7: the wraparound scenario. On a queue of capacity 4, as long as the calls
\* made are those of the scenario (push 1, 2, 3, 4, a pop, push 4 again, four
\* pops), each returns what the scenario says: true, true, true, false, 1,
\* true, 2, 3, 4, false; and the second push(4) has written slot 3 and
\* wrapped the write index to 0.
C7_Wraparound ==
    (capacity = 4 /\ \A i \in 1..ScriptLen : SameCall(log[i], Script[i]))
    => /\ \A i \in 1..ScriptLen : SameResult(log[i], Script[i])
       /\ Len(log) = 6 => (elements[3] = 4 /\ write_index = 0)

\* the whole scenario has run
C7_Witness == capacity = 4 /\ log = Script

(* ---- C8 ---- *)
\* C8: one writer per field. A step of the producer changes neither the read
\* index nor any slot but the one at the write index; a step of the consumer
\* changes neither the write index nor any slot.
C8_Frame ==
    [][/\ ppc' # ppc =>
            /\ read_index' = read_index
            /\ \A i \in DOMAIN elements :
                  i # write_index => elements'[i] = elements[i]
       /\ cpc' # cpc =>
            /\ write_index' = write_index
            /\ elements' = elements]_vars

\* slot 0 has been popped and still holds the value popped from it
C8_Witness ==
    /\ src = Ascending
    /\ Len(Popped) = 1
    /\ read_index = 1
    /\ elements[0] = 1

(* ---- C9 ---- *)
\* how far a call has come: the positions of _push and of pop in program order
PushRank(pc) ==
    CASE pc = "load_write" -> 1
      [] pc = "check_full" -> 2
      [] pc = "write_slot" -> 3
      [] pc = "writing" -> 4
      [] pc = "store_write" -> 5
      [] OTHER -> 0

PopRank(pc) ==
    CASE pc = "load_read" -> 1
      [] pc = "check_empty" -> 2
      [] pc = "read_slot" -> 3
      [] pc = "store_read" -> 4
      [] OTHER -> 0

\* C9: non-blocking. A thread inside a call can always take its next step,
\* whatever state the other thread is in (also one it never leaves), and
\* every step either returns or moves the call forward in program order: a
\* push returns within 5 of its own steps and a pop within 4.
C9_NonBlocking ==
    /\ [](ppc # "idle" => ENABLED ProducerStep)
    /\ [](cpc # "idle" => ENABLED ConsumerStep)
    /\ [][/\ (ppc' # ppc /\ ppc # "idle") =>
               (ppc' = "idle" \/ PushRank(ppc') > PushRank(ppc))
          /\ (cpc' # cpc /\ cpc # "idle") =>
               (cpc' = "idle" \/ PopRank(cpc') > PopRank(cpc))]_vars

\* the consumer has completed two pop calls while the producer stands in the
\* middle of writing the slot of its first push
C9_Witness ==
    /\ ppc = "writing"
    /\ Len(Pushed) = 0
    /\ Len(log) = 2
    /\ log[1].op = "pop"
    /\ log[2].op = "pop"

(* ---- C10 ---- *)
\* C10: swap exchanges the full state of two envelopes. After swap(lhs, rhs),
\* lhs has the tag, the payload bytes and the occupied size rhs had, and rhs
\* has those lhs had.
C10_SwapExchanges ==
    [][msg_op'.op = "swap" => (lhs' = rhs /\ rhs' = lhs)]_vars

(* ---- C11 ---- *)
\* C11: a null payload is rejected. Constructing an envelope from a null
\* pointer-like payload throws, and set_payload called with a null
\* pointer-like payload returns false and leaves both the envelope it was
\* called on and the other one as they were.
C11_NullRejected ==
    [][/\ (msg_op'.op = "construct" /\ msg_op'.arg.is_null) => ~msg_op'.ret
       /\ (msg_op'.op = "set_payload" /\ msg_op'.arg.is_null)
          => (~msg_op'.ret /\ lhs' = lhs /\ rhs' = rhs)]_vars

(* ---- C12 ---- *)
\* envelope m holds tag t and the payload d, bit for bit
RoundTrip(m, t, d) ==
    /\ get_payload(m, d.size) = d.bytes
    /\ get_metadata(m) = t
    /\ get_payload_size(m) = d.size

\* C12: envelope round trip. An envelope constructed with tag VOLUME and a
\* payload P of at most 512 bytes gives back, read with the type of P, the
\* bytes of P, the tag VOLUME and the size of P; and so does every copy of it
\* that a pop has taken out of the queue it was pushed through.
C12_RoundTrip ==
    lhs # NoMessage =>
        /\ RoundTrip(lhs, "VOLUME", msg_op.arg)
        /\ \A i \in 1..Len(log) :
              (log[i].op = "pop" /\ log[i].ret /\ log[i].copied)
              => RoundTrip(log[i].val, "VOLUME", msg_op.arg)

\* an envelope whose payload fills the whole buffer has been pushed and popped
C12_Witness ==
    /\ lhs # NoMessage
    /\ msg_op.arg.size = MAX_MESSAGE_SIZE
    /\ Len(log) = 2
    /\ log[2].op = "pop"
    /\ log[2].ret
    /\ log[2].copied
    /\ out = lhs

(* ---- C13 ---- *)
\* C13: occupied-size bound. Every constructed envelope has an occupied size
\* between 0 and 512; and the byte-level set_payload returns false and changes
\* neither envelope when the data pointer is null or the size exceeds 512, and
\* otherwise returns true and sets the occupied size to the size given.
C13_SizeBound ==
    /\ [](\A m \in {lhs, rhs} :
            m # NoMessage => m.payload_size \in 0..MAX_MESSAGE_SIZE)
    /\ [][msg_op'.op = "set_payload_bytes" =>
            IF msg_op'.arg.is_null \/ msg_op'.arg.size > MAX_MESSAGE_SIZE
            THEN ~msg_op'.ret /\ lhs' = lhs /\ rhs' = rhs
            ELSE /\ msg_op'.ret
                 /\ (IF msg_op'.which = "lhs" THEN lhs' ELSE rhs').payload_size
                       = msg_op'.arg.size]_vars

\* a full envelope has just refused 513 bytes from a valid pointer
C13_Witness ==
    /\ msg_op.op = "set_payload_bytes"
    /\ ~msg_op.ret
    /\ ~msg_op.arg.is_null
    /\ msg_op.arg.size = MAX_MESSAGE_SIZE + 1
    /\ msg_op.which = "lhs"
    /\ lhs.payload_size = MAX_MESSAGE_SIZE

(* ---- C14 ---- *)
\* C14: index range. In every reachable state, also in the middle of a push
\* or a pop, the read index and the write index are in [0, N), and so are
\* the indices the two operations hold locally and access the slots with.
C14_IndexRange ==
    /\ read_index \in 0..(capacity - 1)
    /\ write_index \in 0..(capacity - 1)
    /\ push_curr_write_index \in 0..(capacity - 1)
    /\ next_write_index \in 0..(capacity - 1)
    /\ curr_read_index \in 0..(capacity - 1)
    /\ pop_curr_write_index \in 0..(capacity - 1)

\* the write index has been reset to 0 after N pushes and the read index
\* stands at the last slot
C14_Witness ==
    /\ Len(Pushed) = capacity
    /\ write_index = 0
    /\ read_index = capacity - 1

(* ---- C15 ---- *)
\* C15: publication order. The step that stores a new write index finds the
\* element already stored in the slot and stores no slot itself; a slot is
\* stored only after the push has loaded the read index and before it stores
\* the write index; the caller's object is written only after the pop has
\* loaded the write index and before it stores the read index; and the step
\* that stores a new read index finds the slot already copied out.
C15_PublicationOrder ==
    [][/\ write_index' # write_index =>
             (elements[push_curr_write_index] = element /\ elements' = elements)
       /\ elements' # elements =>
             (PushRank(ppc) > PushRank("check_full") /\ write_index' = write_index)
       /\ out' # out =>
             (PopRank(cpc) > PopRank("check_empty") /\ read_index' = read_index)
       /\ read_index' # read_index =>
             ((has_out => out = elements[curr_read_index]) /\ out' = out)]_vars

\* one push and one pop that copied the element out have completed
C15_Witness ==
    /\ src = Ascending
    /\ log = <<PushRec(1, TRUE), PopRec(1, TRUE, TRUE)>>

(* ---- C17 ---- *)
\* C17: pop without an output argument still removes. On a non-empty queue a
\* pop, with or without an object to copy into, does not return at the
\* emptiness test; without an object it writes nothing at the copy step; and
\* its last step returns true, advances the read index by one mod N and
\* leaves the write index, the slots and the caller's object alone, the same
\* whether or not an object was given.
C17_PopNull ==
    [][/\ (cpc = "check_empty" /\ cpc' # cpc /\ read_index # write_index)
          => (cpc' = "read_slot" /\ log' = log)
       /\ (cpc = "read_slot" /\ cpc' # cpc /\ ~has_out)
          => (out' = out /\ UNCHANGED <<elements, read_index, write_index>>)
       /\ (cpc = "store_read" /\ cpc' # cpc)
          => (/\ cpc' = "idle"
              /\ read_index' = (read_index + 1) % capacity
              /\ UNCHANGED <<elements, write_index, out>>
              /\ log' = Append(log, PopRec(out, TRUE, has_out)))]_vars

\* pop(nullptr) has discarded the first element and the next pop returned the
\* second one
C17_Witness ==
    log = <<PushRec(1, TRUE), PushRec(2, TRUE), PopRec(DefaultT, TRUE, FALSE),
            PopRec(2, TRUE, TRUE)>>

(* ---- C18 ---- *)
\* the calls l[i], l[i+1], ... return what a sequential FIFO queue of capacity
\* N - 1 holding q returns when they are applied to it one after the other
RECURSIVE Replay(_, _, _)
Replay(l, i, q) ==
    IF i > Len(l) THEN TRUE
    ELSE IF l[i].op = "push"
         THEN IF Len(q) = capacity - 1
              THEN ~l[i].ret /\ Replay(l, i + 1, q)
              ELSE l[i].ret /\ Replay(l, i + 1, Append(q, l[i].val))
         ELSE IF q = <<>>
              THEN ~l[i].ret /\ Replay(l, i + 1, q)
              ELSE /\ l[i].ret
                   /\ l[i].copied => l[i].val = Head(q)
                   /\ Replay(l, i + 1, Tail(q))

\* C18: linearizability against a bounded FIFO. Each call is recorded at one
\* of its own steps: a push that fails when it loads the read index, a push
\* that succeeds when it stores the write index, a pop that fails when it
\* loads the write index, a pop that succeeds when it stores the read index.
\* Taken in that order the calls return exactly what a sequential FIFO queue
\* of capacity N - 1 returns: false for a push only on N - 1 elements, false
\* for a pop only on none.
C18_Linearizable == Replay(log, 1, <<>>)

\* a push was refused on the full queue while a pop was in progress, the pop
\* then completed, and the retried push was accepted
C18_Witness ==
    /\ capacity = MinSize
    /\ log = <<PushRec(1, TRUE), PushRec(2, TRUE), PushRec(3, FALSE),
               PopRec(1, TRUE, TRUE), PushRec(3, TRUE)>>
    /\ cpc = "load_read"

\* the oldest element pushed and not yet popped
Oldest == Pushed[Len(Popped) + 1].val

\* a step of front(): the index load, or the read through the reference
FrontStep ==
    \/ cpc = "idle" /\ cpc' = "front_deref"
    \/ cpc = "front_deref" /\ cpc' = "idle"

\* C16: front is a stable peek for the consumer.  Once the consumer has seen
\* is_empty() return false, whatever the producer does in between: front()
\* names the slot at the read index, which holds the oldest element pushed
\* and not yet popped; no step of front() changes an index or a slot; a
\* repeated front() reads the value the one before read; and the consumer's
\* next pop finds the queue non-empty and returns true with that same value.
C16_FrontPeek ==
    /\ [](/\ nonempty_seen => Len(Pushed) > Len(Popped)
          /\ cpc = "front_deref" =>
                (front_ref = read_index /\ elements[front_ref] = Oldest)
          /\ (nonempty_seen /\ front_val # <<>>) => front_val = <<Oldest>>)
    /\ [][/\ FrontStep => UNCHANGED <<elements, read_index, write_index>>
          /\ (cpc = "front_deref" /\ cpc' = "idle" /\ front_val # <<>>)
                => front_val' = front_val
          /\ (cpc = "check_empty" /\ cpc' # cpc) => cpc' = "read_slot"
          /\ (cpc = "store_read" /\ cpc' = "idle") =>
                /\ log' = Append(log, PopRec(Oldest, TRUE, TRUE))
                /\ out' = Oldest
                /\ front_val # <<>> => front_val = <<out'>>]_vars

\* the consumer has looked at the front and then popped that value while the
\* producer had pushed a further element in between
C16_Witness ==
    /\ cpc = "idle"
    /\ ~nonempty_seen
    /\ front_val # <<>>
    /\ Len(log) >= 3
    /\ log[Len(log)] = PopRec(front_val[1], TRUE, TRUE)
    /\ log[Len(log) - 1].op = "push" /\ log[Len(log) - 1].ret
    /\ out = front_val[1]
    /\ Len(Pushed) > Len(Popped)


\* C19: progress under retry.  With both threads scheduled fairly, the
\* producer calling push again after every false return and the consumer
\* calling pop again after every return: an element whose push returned false
\* is eventually pushed with a true return, and every element whose push
\* returned true is eventually copied out by a pop that returns true.
C19_Progress ==
    \A k \in 1..MaxPush :
        /\ (k \in retries) ~> (Len(Pushed) >= k /\ Pushed[k].val = src[k])
        /\ (Len(Pushed) >= k) ~>
              (/\ Len(Popped) >= k
               /\ Popped[k].copied
               /\ Popped[k].val = Pushed[k].val)

\* an element whose push returned false at least once has been pushed and
\* then returned by a pop
C19_Witness ==
    \E k \in retries :
        /\ Len(Popped) >= k
        /\ Popped[k].copied
        /\ Popped[k].val = src[k]

====
